---- MODULE Spec2Model ----
(***************************************************************************)
(* Model of mio-echo-server (src/src/lib.rs): the single-threaded event    *)
(* loop `run`, the per-connection state machine `Client`, the slab that    *)
(* stores the clients and the edge-triggered readiness multiplexer, with   *)
(* the peers and the kernel sockets as the environment.                    *)
(*                                                                         *)
(* MAX_CLIENTS and DEFAULT_BUF_SIZE are 1024 in the source; the model      *)
(* keeps the source's expressions over them (MAX_CLIENTS - 1, the          *)
(* comparison len < DEFAULT_BUF_SIZE) and scales the two numbers down.     *)
(***************************************************************************)
EXTENDS Integers, Sequences, FiniteSets, TLC

\* ---- program constants (scaled) ----
MAX_CLIENTS == 3
DEFAULT_BUF_SIZE == 2

\* ---- bounds of the environment ----
MaxConns == 3       \* connections ever attempted when the peers send no data
MaxSend == 2        \* bytes a peer sends on one connection
SndBuf == 1         \* bytes of kernel send buffer per socket
MaxSpurious == 1    \* readiness events reported without the condition holding
MaxQueue == 2       \* buffers queued when Client::write is explored on its own

VARIABLES
    clients,    \* the slab: key -> Client, NoClient for a vacant or unused key
    vacant,     \* the slab's chain of vacant keys, most recently removed first
    reg,        \* the multiplexer: socket -> its token and write interest
    rl,         \* sockets on the multiplexer's ready list (an edge occurred)
    lrdy,       \* the listener is on the ready list
    batch,      \* events of the current wake not yet handled
    pc,         \* position of the event loop
    cur,        \* the index of the event being handled
    tot,        \* tot_len of the running Client::read / Client::write
    backlog,    \* connections completed by the kernel, not yet accepted
    nextConn,   \* the next connection a peer will open
    sent,       \* bytes the peer has sent, per connection
    rcvd,       \* bytes the server has read from the socket
    fin,        \* the peer has closed its sending side
    rst,        \* the connection was reset
    wr,         \* bytes the server has written to the socket
    consumed,   \* bytes of wr the peer has taken
    fate,       \* how a connection left the server
    spurious,   \* spurious events reported so far
    acc,        \* the result of the last server.accept() of the running accept loop
    calls,      \* socket writes that returned Ok in the running Client::write
    load        \* what the peers do in this run: connections, bytes on each

vars == <<clients, vacant, reg, rl, lrdy, batch, pc, cur, tot, backlog,
          nextConn, sent, rcvd, fin, rst, wr, consumed, fate, spurious, acc, calls,
          load>>

srvVars == <<clients, vacant, reg, batch, pc, cur, tot, fate, acc, calls, load>>

Keys == 0..MAX_CLIENTS
ConnIds == 1..MaxConns

\* Connections ever attempted when the peers send data: as many as the table
\* admits at once. (One more gives about 70 million states instead of half a
\* million; the properties below hold there as well.)
MaxDataConns == MAX_CLIENTS - 1

\* The runs explored: many silent connections, or few connections with data.
Workloads ==
    {[conns |-> MaxConns, bytes |-> 0], [conns |-> MaxDataConns, bytes |-> MaxSend]}

Min(a, b) == IF a < b THEN a ELSE b

\* The k-th byte a peer sends on connection c; distinct across connections.
Byte(c, k) == c * 10 + k
Stream(c) == [k \in 1..MaxSend |-> Byte(c, k)]
OwnerOf(b) == b \div 10

IsPrefix(s, t) == Len(s) <= Len(t) /\ SubSeq(t, 1, Len(s)) = s

RECURSIVE Flatten(_)
Flatten(ss) == IF ss = <<>> THEN <<>> ELSE Head(ss) \o Flatten(Tail(ss))

\* ---- Client ----
NoClient == [sock |-> 0, writable |-> FALSE, bufs |-> <<>>, pos |-> 0]

ClientNew(sock) == [sock |-> sock, writable |-> FALSE, bufs |-> <<>>, pos |-> 0]

\* ---- the multiplexer ----
SERVER_TOKEN == MAX_CLIENTS

NoReg == [token |-> -1, w |-> FALSE]

Registered(c) == reg[c].token # -1

\* What the kernel reports for socket c right now.
ReadableNow(c) == rcvd[c] < sent[c] \/ fin[c] \/ rst[c]
SndFree(c) == SndBuf - (Len(wr[c]) - consumed[c])
WritableNow(c) == SndFree(c) > 0 \/ rst[c]

\* ---- the slab ----
Live == {i \in Keys : clients[i].sock # 0}
SlabLen == Cardinality(Live)

SlabKeyByCount == SlabLen

\* Slab::insert takes the head of the vacant chain, else the end of the entries.
SlabKey == IF vacant # <<>> THEN Head(vacant) ELSE SlabLen

SlabInsert(cl) == [clients EXCEPT ![SlabKey] = cl]

SlabRemove(index) == [clients EXCEPT ![index] = NoClient]

\* ---- Client::register / reregister / deregister ----
RegisterWritable(c, index) == [reg EXCEPT ![c] = [token |-> index, w |-> TRUE]]

RegisterFirstToken(c, index) == [reg EXCEPT ![c] = [token |-> 0, w |-> FALSE]]

Register(c, index) == [reg EXCEPT ![c] = [token |-> index, w |-> FALSE]]

ReregisterOnlyOff(cl) == cl.bufs = <<>> /\ cl.writable

ReregisterNeeded(cl) == (cl.bufs = <<>>) = cl.writable

Reregister(cl) ==
    IF ReregisterNeeded(cl) THEN [cl EXCEPT !.writable = ~cl.writable] ELSE cl

DeregisterForgotten(c) == reg

Deregister(c) == [reg EXCEPT ![c] = NoReg]

\* The multiplexer puts a socket on the ready list when it is armed (added or
\* modified) while a condition of its interest holds.
Armed(c, w) == IF ReadableNow(c) \/ (w /\ WritableNow(c)) THEN rl \cup {c} ELSE rl

\* ---- Client::read ----
\* rbuf after the socket read stored `data` at its front.
RBuf(data) == [k \in 1..DEFAULT_BUF_SIZE |-> IF k <= Len(data) THEN data[k] ELSE 0]

ToBufUncut(rbuf, len) == rbuf

\* rbuf.to_vec(), cut to len when len < DEFAULT_BUF_SIZE.
ToBuf(rbuf, len) == IF len < DEFAULT_BUF_SIZE THEN SubSeq(rbuf, 1, len) ELSE rbuf

ReadPushCapped(cl, data) ==
    IF cl.bufs # <<>> THEN cl
    ELSE [cl EXCEPT !.bufs = Append(@, ToBuf(RBuf(data), Len(data)))]

ReadPush(cl, data) == [cl EXCEPT !.bufs = Append(@, ToBuf(RBuf(data), Len(data)))]

\* The value Client::read returns when the socket read gives `outcome`.
ReadReturn(outcome, totLen) ==
    CASE outcome = "eof" -> [ok |-> TRUE, len |-> 0]
      [] outcome = "wouldblock" -> [ok |-> TRUE, len |-> totLen]
      [] OTHER -> [ok |-> FALSE, len |-> 0]

\* The event loop's match on the result of read: remove the client, or go on
\* to the write path.
AfterRead(res) == IF res.ok /\ res.len # 0 THEN "write" ELSE "remove"

\* ---- Client::write ----
WriteSlice(cl) == SubSeq(Head(cl.bufs), cl.pos + 1, Len(Head(cl.bufs)))

WriteAdvanceNoCursor(cl, len) ==
    IF Len(Head(cl.bufs)) = cl.pos + len
    THEN [cl EXCEPT !.bufs = Tail(@), !.pos = 0]
    ELSE cl

WriteAdvanceNoReset(cl, len) ==
    IF Len(Head(cl.bufs)) = cl.pos + len
    THEN [cl EXCEPT !.bufs = Tail(@), !.pos = cl.pos + len]
    ELSE [cl EXCEPT !.pos = cl.pos + len]

WriteAdvanceStuck(cl, len) == cl

WriteAdvance(cl, len) ==
    IF Len(Head(cl.bufs)) = cl.pos + len
    THEN [cl EXCEPT !.bufs = Tail(@), !.pos = 0]
    ELSE [cl EXCEPT !.pos = cl.pos + len]

\* ---- the accept path ----
AdmitUpToMax(count) == count < MAX_CLIENTS

AdmitAlways(count) == TRUE

Admit(count) == count < MAX_CLIENTS - 1

\* ---- the for loop over the events of one wake ----
LoopNext == IF batch = <<>> THEN "poll" ELSE "next"

Running == pc \notin {"done", "panic"}

Orders(S) ==
    {s \in [1..Cardinality(S) -> S] : \A i, j \in 1..Cardinality(S) : i # j => s[i] # s[j]}

ListenerEvents ==
    IF lrdy /\ backlog # <<>>
    THEN {[token |-> SERVER_TOKEN, sock |-> 0, r |-> TRUE, w |-> FALSE]}
    ELSE {}

ClientEvents ==
    {[token |-> reg[c].token, sock |-> c, r |-> ReadableNow(c),
      w |-> reg[c].w /\ WritableNow(c)] :
        c \in {d \in rl : Registered(d) /\ (ReadableNow(d) \/ (reg[d].w /\ WritableNow(d)))}}

\* Events the multiplexer may report although their condition does not hold.
SpuriousEvents ==
    IF spurious >= MaxSpurious THEN {}
    ELSE {e \in [token : Keys, sock : ConnIds, r : BOOLEAN, w : BOOLEAN] :
            /\ Registered(e.sock) /\ e.token = reg[e.sock].token
            /\ e.sock \notin {f.sock : f \in ClientEvents}
            /\ (e.r \/ e.w) /\ (e.w => reg[e.sock].w)}

Init ==
    /\ clients = [i \in Keys |-> NoClient]
    /\ vacant = <<>>
    /\ reg = [c \in ConnIds |-> NoReg]
    /\ rl = {}
    /\ lrdy = FALSE
    /\ batch = <<>>
    /\ pc = "poll"
    /\ cur = 0
    /\ tot = 0
    /\ backlog = <<>>
    /\ nextConn = 1
    /\ sent = [c \in ConnIds |-> 0]
    /\ rcvd = [c \in ConnIds |-> 0]
    /\ fin = [c \in ConnIds |-> FALSE]
    /\ rst = [c \in ConnIds |-> FALSE]
    /\ wr = [c \in ConnIds |-> <<>>]
    /\ consumed = [c \in ConnIds |-> 0]
    /\ fate = [c \in ConnIds |-> "none"]
    /\ spurious = 0
    /\ acc = "none"
    /\ calls = 0
    /\ load \in Workloads

\* ---- the peers and the kernel ----
PeerActive(c) == Running /\ c < nextConn /\ fate[c] = "none"

Edge(c) == IF Registered(c) THEN rl \cup {c} ELSE rl

Connect ==
    /\ Running
    /\ nextConn <= load.conns
    /\ backlog' = Append(backlog, nextConn)
    /\ nextConn' = nextConn + 1
    /\ lrdy' = TRUE
    /\ UNCHANGED <<srvVars, rl, sent, rcvd, fin, rst, wr, consumed, spurious>>

Send(c) ==
    /\ PeerActive(c) /\ ~fin[c] /\ ~rst[c]
    /\ sent[c] < load.bytes
    /\ sent' = [sent EXCEPT ![c] = @ + 1]
    /\ rl' = Edge(c)
    /\ UNCHANGED <<srvVars, lrdy, backlog, nextConn, rcvd, fin, rst, wr, consumed, spurious>>

Close(c) ==
    /\ PeerActive(c) /\ ~fin[c] /\ ~rst[c]
    /\ fin' = [fin EXCEPT ![c] = TRUE]
    /\ rl' = Edge(c)
    /\ UNCHANGED <<srvVars, lrdy, backlog, nextConn, sent, rcvd, rst, wr, consumed, spurious>>

Reset(c) ==
    /\ PeerActive(c) /\ ~rst[c]
    /\ rst' = [rst EXCEPT ![c] = TRUE]
    /\ rl' = Edge(c)
    /\ UNCHANGED <<srvVars, lrdy, backlog, nextConn, sent, rcvd, fin, wr, consumed, spurious>>

Consume(c) ==
    /\ PeerActive(c) /\ ~rst[c]
    /\ consumed[c] < Len(wr[c])
    /\ consumed' = [consumed EXCEPT ![c] = @ + 1]
    /\ rl' = Edge(c)
    /\ UNCHANGED <<srvVars, lrdy, backlog, nextConn, sent, rcvd, fin, rst, wr, spurious>>

\* ---- the event loop ----
\* poll.poll: blocks until an event exists and returns every ready socket once.
Poll ==
    /\ pc = "poll"
    /\ \E sp \in {{}} \cup {{e} : e \in SpuriousEvents} :
         LET evs == ListenerEvents \cup ClientEvents \cup sp IN
         /\ evs # {}
         /\ batch' \in Orders(evs)
         /\ spurious' = spurious + Cardinality(sp)
    /\ rl' = {}
    /\ lrdy' = FALSE
    /\ pc' = "next"
    /\ acc' = "none"
    /\ UNCHANGED <<clients, vacant, reg, cur, tot, fate, backlog, nextConn,
                   sent, rcvd, fin, rst, wr, consumed, calls, load>>

\* poll.poll fails: run returns the error.
PollError ==
    /\ pc = "poll"
    /\ pc' = "done"
    /\ UNCHANGED <<clients, vacant, reg, rl, lrdy, batch, cur, tot, fate, backlog,
                   nextConn, sent, rcvd, fin, rst, wr, consumed, spurious, acc,
                   calls, load>>

FirstPathWriteFirst(e) == IF e.w THEN "write" ELSE "read"

\* if event.readiness().is_readable() { read } before the write path.
FirstPath(e) == IF e.r THEN "read" ELSE "write"

\* match event.token(): the listener, or a client whose entry is unwrapped.
Dispatch ==
    /\ pc = "next"
    /\ batch # <<>>
    /\ batch' = Tail(batch)
    /\ LET e == Head(batch) IN
         IF e.token = SERVER_TOKEN
         THEN pc' = "accept" /\ cur' = 0
         ELSE /\ cur' = e.token
              /\ pc' = IF clients[e.token] = NoClient THEN "panic"
                       ELSE FirstPath(e)
    /\ tot' = 0
    /\ calls' = 0
    /\ acc' = "none"
    /\ UNCHANGED <<clients, vacant, reg, rl, lrdy, fate, backlog, nextConn,
                   sent, rcvd, fin, rst, wr, consumed, spurious, load>>

AfterAcceptSwallow(outcome) == IF outcome = "conn" THEN "accept" ELSE LoopNext

\* The match on the result of server.accept(): loop again, break, or return
\* the error from run.
AfterAccept(outcome) ==
    IF outcome = "conn" THEN "accept"
    ELSE IF outcome = "wouldblock" THEN LoopNext ELSE "done"

\* server.accept() returns a connection: admit and register it, or drop it.
AcceptOk ==
    /\ pc = "accept"
    /\ backlog # <<>>
    /\ backlog' = Tail(backlog)
    /\ LET sock == Head(backlog) IN
         IF Admit(SlabLen)
         THEN /\ clients' = SlabInsert(ClientNew(sock))
              /\ vacant' = IF vacant # <<>> THEN Tail(vacant) ELSE vacant
              /\ reg' = Register(sock, SlabKey)
              /\ rl' = Armed(sock, FALSE)
              /\ fate' = fate
         ELSE /\ fate' = [fate EXCEPT ![sock] = "rejected"]
              /\ UNCHANGED <<clients, vacant, reg, rl>>
    /\ acc' = "conn"
    /\ pc' = AfterAccept("conn")
    /\ UNCHANGED <<lrdy, batch, cur, tot, nextConn, sent, rcvd, fin, rst, wr,
                   consumed, spurious, calls, load>>

AcceptWouldBlock ==
    /\ pc = "accept"
    /\ backlog = <<>>
    /\ acc' = "wouldblock"
    /\ pc' = AfterAccept("wouldblock")
    /\ UNCHANGED <<clients, vacant, reg, rl, lrdy, batch, cur, tot, fate, backlog,
                   nextConn, sent, rcvd, fin, rst, wr, consumed, spurious, calls, load>>

\* server.accept() fails with an error other than would-block.
AcceptError ==
    /\ pc = "accept"
    /\ acc' = "error"
    /\ pc' = AfterAccept("error")
    /\ UNCHANGED <<clients, vacant, reg, rl, lrdy, batch, cur, tot, fate, backlog,
                   nextConn, sent, rcvd, fin, rst, wr, consumed, spurious, calls, load>>

RemoveClientFatal(index, cause) ==
    LET c == clients[index].sock IN
    /\ reg' = Deregister(c)
    /\ rl' = rl \ {c}
    /\ clients' = SlabRemove(index)
    /\ vacant' = <<index>> \o vacant
    /\ fate' = [fate EXCEPT ![c] = cause]
    /\ pc' = "done"
    /\ cur' = 0
    /\ tot' = 0
    /\ calls' = 0

\* deregister, clients.remove(index), continue.
RemoveClient(index, cause) ==
    LET c == clients[index].sock IN
    /\ reg' = Deregister(c)
    /\ rl' = rl \ {c}
    /\ clients' = SlabRemove(index)
    /\ vacant' = <<index>> \o vacant
    /\ fate' = [fate EXCEPT ![c] = cause]
    /\ pc' = LoopNext
    /\ cur' = 0
    /\ tot' = 0
    /\ calls' = 0

\* What the socket read gives now.
ReadOutcome(c) ==
    IF rst[c] THEN "error"
    ELSE IF rcvd[c] < sent[c] THEN "data"
    ELSE IF fin[c] THEN "eof" ELSE "wouldblock"

ReadLoopStopShort(len) == IF len < DEFAULT_BUF_SIZE THEN "write" ELSE "read"

\* After Ok(len) the loop of Client::read runs again.
ReadLoop(len) == "read"

\* One pass of the loop of Client::read that stores a chunk.
ReadData ==
    /\ pc = "read"
    /\ LET c == clients[cur].sock IN
         /\ ReadOutcome(c) = "data"
         /\ \E len \in 1..Min(sent[c] - rcvd[c], DEFAULT_BUF_SIZE) :
              /\ clients' = [clients EXCEPT ![cur] =
                               ReadPush(@, SubSeq(Stream(c), rcvd[c] + 1, rcvd[c] + len))]
              /\ rcvd' = [rcvd EXCEPT ![c] = @ + len]
              /\ tot' = tot + len
              /\ pc' = ReadLoop(len)
    /\ UNCHANGED <<vacant, reg, rl, lrdy, batch, cur, fate, backlog, nextConn,
                   sent, fin, rst, wr, consumed, spurious, acc, calls, load>>

\* The pass of the loop that ends Client::read, and the event loop's match on
\* its result.
ReadEnd ==
    /\ pc = "read"
    /\ LET c == clients[cur].sock
           outcome == ReadOutcome(c) IN
         /\ outcome # "data"
         /\ IF AfterRead(ReadReturn(outcome, tot)) = "remove"
            THEN RemoveClient(cur, outcome)
            ELSE /\ pc' = "write"
                 /\ tot' = 0
                 /\ UNCHANGED <<clients, vacant, reg, rl, cur, fate, calls>>
    /\ UNCHANGED <<lrdy, batch, backlog, nextConn, sent, rcvd, fin, rst, wr,
                   consumed, spurious, acc, load>>

\* What the socket write gives now.
WriteOutcome(c) ==
    IF rst[c] THEN "error"
    ELSE IF SndFree(c) > 0 THEN "data" ELSE "wouldblock"

WriteLoopStopPartial(cl, len) ==
    IF Len(Head(cl.bufs)) = cl.pos + len THEN "write" ELSE LoopNext

\* After Ok(len) the loop of Client::write tests the queue again.
WriteLoop(cl, len) == "write"

\* One pass of the loop of Client::write in which the socket takes bytes.
\* One pass of the loop of Client::write in which write returns Ok(len).
WriteOk(len) ==
    LET cl == clients[cur]
        c == cl.sock IN
    /\ wr' = [wr EXCEPT ![c] = @ \o SubSeq(WriteSlice(cl), 1, len)]
    /\ clients' = [clients EXCEPT ![cur] = WriteAdvance(cl, len)]
    /\ tot' = tot + len
    /\ pc' = WriteLoop(cl, len)
    /\ calls' = calls + 1
    /\ UNCHANGED <<vacant, reg, rl, lrdy, batch, cur, fate, backlog, nextConn,
                   sent, rcvd, fin, rst, consumed, spurious, acc, load>>

WriteData ==
    /\ pc = "write"
    /\ clients[cur].bufs # <<>>
    /\ WriteOutcome(clients[cur].sock) = "data"
    /\ \E len \in 1..Min(Len(WriteSlice(clients[cur])), SndFree(clients[cur].sock)) :
         WriteOk(len)

\* Client::write returns Ok (queue empty or would-block): reregister.
WriteReturn ==
    /\ LET cl == clients[cur]
           c == cl.sock
           ncl == Reregister(cl) IN
         /\ clients' = [clients EXCEPT ![cur] = ncl]
         /\ IF ncl.writable # cl.writable
            THEN /\ reg' = [reg EXCEPT ![c].w = ncl.writable]
                 /\ rl' = Armed(c, ncl.writable)
            ELSE UNCHANGED <<reg, rl>>
    /\ pc' = LoopNext
    /\ cur' = 0
    /\ tot' = 0
    /\ calls' = 0
    /\ UNCHANGED <<vacant, lrdy, batch, fate, backlog, nextConn, sent, rcvd, fin,
                   rst, wr, consumed, spurious, acc, load>>

WriteEnd ==
    /\ pc = "write"
    /\ clients[cur].bufs = <<>> \/ WriteOutcome(clients[cur].sock) = "wouldblock"
    /\ WriteReturn

\* Client::write returns an error: remove the client.
WriteFail ==
    /\ RemoveClient(cur, "writeerr")
    /\ UNCHANGED <<lrdy, batch, backlog, nextConn, sent, rcvd, fin, rst, wr,
                   consumed, spurious, acc, load>>

WriteError ==
    /\ pc = "write"
    /\ clients[cur].bufs # <<>>
    /\ WriteOutcome(clients[cur].sock) = "error"
    /\ WriteFail

Next ==
    \/ Connect
    \/ \E c \in ConnIds : Send(c)
    \/ \E c \in ConnIds : Close(c)
    \/ \E c \in ConnIds : Reset(c)
    \/ \E c \in ConnIds : Consume(c)
    \/ Poll
    \/ PollError
    \/ Dispatch
    \/ AcceptOk
    \/ AcceptWouldBlock
    \/ AcceptError
    \/ ReadData
    \/ ReadEnd
    \/ WriteData
    \/ WriteEnd
    \/ WriteError

Spec == Init /\ [][Next]_vars

TypeOK ==
    /\ pc \in {"poll", "next", "accept", "read", "write", "done", "panic"}
    /\ cur \in Keys
    /\ \A c \in ConnIds : rcvd[c] <= sent[c] /\ consumed[c] <= Len(wr[c])

\* ---- properties ----
Range(s) == {s[k] : k \in 1..Len(s)}

\* The bytes the server has read from connection c so far.
ReadSoFar(c) == SubSeq(Stream(c), 1, rcvd[c])

Removed(c) == fate[c] \in {"eof", "wouldblock", "error", "writeerr"}

\* C1: in every reachable state the bytes written to a connection's socket
\* are a prefix of the bytes read from that socket.
EchoPrefix == \A c \in ConnIds : IsPrefix(wr[c], ReadSoFar(c))

\* A buffer has been sent in part: the cursor stands inside the front buffer.
EchoPrefixWitness ==
    \E i \in Live : clients[i].pos > 0 /\ wr[clients[i].sock] # <<>>

\* C2 (as stated): a connection whose peer neither closed nor reset never
\* leaves the server while bytes read from it are not yet written back, so
\* that they can still be written.
EventualEchoKept ==
    \A c \in ConnIds : (Removed(c) /\ ~fin[c] /\ ~rst[c]) => Len(wr[c]) = rcvd[c]

\* C3 (as stated): a connection removed on end-of-stream has had every byte
\* its peer sent before closing written back.
CleanCloseDelivers ==
    \A c \in ConnIds : (fate[c] = "eof") => wr[c] = SubSeq(Stream(c), 1, sent[c])

\* C4 (as stated): a connection is removed only on end-of-stream, a read
\* error or a write error; never on a read that reports would-block.
RemovalTriggers ==
    \A c \in ConnIds : fate[c] \in {"none", "rejected", "eof", "error", "writeerr"}

\* C5: outside the handling of its own event, every live connection is
\* registered for write-readiness iff its pending queue is non-empty.
InterestConvergence ==
    \A i \in Live :
        \/ pc \in {"read", "write"} /\ i = cur
        \/ /\ Registered(clients[i].sock)
           /\ reg[clients[i].sock].w <=> (clients[i].bufs # <<>>)

\* Between two wakes a connection holds unsent bytes and is registered for
\* write-readiness.
InterestConvergenceWitness ==
    /\ pc = "poll"
    /\ \E i \in Live : clients[i].bufs # <<>> /\ reg[clients[i].sock].w

\* C6: every byte in a connection's pending queue or written to its socket
\* was read from that same connection's socket.
Isolation ==
    /\ \A i \in Live : \A b \in Range(Flatten(clients[i].bufs)) : OwnerOf(b) = clients[i].sock
    /\ \A c \in ConnIds : \A b \in Range(wr[c]) : OwnerOf(b) = c

\* A connection holds the key a removed connection used and has echoed data,
\* the removed one having read data too.
IsolationWitness ==
    \E i \in Live : \E c \in ConnIds :
        /\ Removed(c) /\ rcvd[c] > 0 /\ vacant = <<>>
        /\ clients[i].sock # c /\ clients[i].sock > c /\ i = 0
        /\ wr[clients[i].sock] # <<>>

\* C7: the table never holds more than MAX_CLIENTS - 1 connections, and an
\* accept at MAX_CLIENTS - 1 connections drops the new socket, changes no
\* table entry or registration and stays in the accept loop.
AdmissionBound ==
    /\ [](SlabLen <= MAX_CLIENTS - 1)
    /\ [][(/\ pc = "accept" /\ backlog # <<>> /\ backlog' = Tail(backlog)
           /\ SlabLen = MAX_CLIENTS - 1)
          => (/\ clients' = clients /\ vacant' = vacant /\ reg' = reg /\ rl' = rl
              /\ fate'[Head(backlog)] = "rejected"
              /\ pc' = "accept")]_vars

AdmissionBoundWitness ==
    \E c \in ConnIds : fate[c] = "rejected" /\ SlabLen = MAX_CLIENTS - 1 /\ pc = "accept"

NoRemovalYet == \A c \in ConnIds : ~Removed(c)

Accepted(c) == c < nextConn /\ c \notin Range(backlog)

\* C8 (as stated): with none closing, each of the first MAX_CLIENTS accepted
\* connections is admitted.
CapacityIsMaxClients ==
    NoRemovalYet => \A c \in ConnIds : (Accepted(c) /\ c <= MAX_CLIENTS) => fate[c] = "none"

\* C8 (amended): the table holds at most MAX_CLIENTS - 1 connections; with
\* none closing, the first MAX_CLIENTS - 1 accepted connections are admitted
\* and the MAX_CLIENTS-th and later ones are rejected.
CapacityIsMaxClientsMinusOne ==
    /\ SlabLen <= MAX_CLIENTS - 1
    /\ NoRemovalYet =>
         \A c \in ConnIds : Accepted(c) =>
            IF c <= MAX_CLIENTS - 1
            THEN fate[c] = "none" /\ \E i \in Live : clients[i].sock = c
            ELSE fate[c] = "rejected"

CapacityWitness ==
    /\ NoRemovalYet
    /\ \E c \in ConnIds : c = MAX_CLIENTS /\ fate[c] = "rejected"
    /\ \A c \in 1..(MAX_CLIENTS - 1) : \E i \in Live : clients[i].sock = c

RemovalIsFinal ==
    /\ pc # "panic"
    /\ \A c \in ConnIds : fate[c] # "none" => ~Registered(c) /\ c \notin rl
    /\ pc \in {"read", "write"} => cur \in Live /\ fate[clients[cur].sock] = "none"
    /\ \A k \in 1..Len(batch) :
         batch[k].token # SERVER_TOKEN =>
            /\ batch[k].token \in Live
            /\ clients[batch[k].token].sock = batch[k].sock

\* An event is being handled for a connection that reuses the key of a
\* connection removed earlier.
RemovalIsFinalWitness ==
    /\ pc \in {"read", "write"} /\ cur = 0
    /\ \E c \in ConnIds : Removed(c) /\ c < clients[cur].sock

\* C11: an error of server.accept() other than would-block ends run (no
\* further step of the event loop follows), while would-block only leaves the
\* accept loop and the event loop goes on with the rest of the batch.
FatalAcceptError ==
    /\ [](acc = "error" => pc = "done")
    /\ [][pc # "done"]_vars
    /\ [][(pc = "accept" /\ pc' # "accept") =>
            \/ acc' = "error" /\ pc' = "done"
            \/ /\ acc' = "wouldblock" /\ backlog = <<>>
               /\ pc' = (IF batch = <<>> THEN "poll" ELSE "next")
               /\ batch' = batch /\ clients' = clients /\ reg' = reg]_vars

\* run has returned the accept error with events of the batch unhandled.
FatalAcceptErrorWitness == pc = "done" /\ acc = "error" /\ batch # <<>>

\* C12: every chunk read is appended to the pending queue whatever the
\* queue's length; no read step leaves the queue as it was.
NoBackPressure ==
    [][\A i \in Live :
         LET c == clients[i].sock IN
         (rcvd'[c] > rcvd[c]) =>
            /\ pc = "read" /\ i = cur
            /\ clients'[i].bufs =
                 Append(clients[i].bufs, SubSeq(Stream(c), rcvd[c] + 1, rcvd'[c]))]_vars

\* The queue holds as many buffers as the peer sent bytes and nothing has
\* been written yet.
NoBackPressureWitness ==
    \E i \in Live : Len(clients[i].bufs) >= MaxSend /\ wr[clients[i].sock] = <<>>

\* C13: for every live connection the cursor is 0 when the queue is empty
\* and lies inside the front buffer otherwise, so the slice given to the
\* socket write is a non-empty part of the front buffer.
CursorInvariant ==
    \A i \in Live :
        /\ \A k \in 1..Len(clients[i].bufs) : Len(clients[i].bufs[k]) >= 1
        /\ IF clients[i].bufs = <<>>
           THEN clients[i].pos = 0
           ELSE 0 <= clients[i].pos /\ clients[i].pos < Len(Head(clients[i].bufs))

\* Between two wakes the cursor stands inside a two-byte front buffer.
CursorInvariantWitness ==
    /\ pc = "poll"
    /\ \E i \in Live : clients[i].pos = 1 /\ Len(Head(clients[i].bufs)) = 2

\* C14: every key in use and every registered token lies in
\* 0 .. MAX_CLIENTS - 1 (never the listener's token), and no two registered
\* connections share a token.
ReservedListenerToken ==
    /\ \A i \in Live : i # SERVER_TOKEN /\ i \in 0..(MAX_CLIENTS - 1)
    /\ \A c \in ConnIds : Registered(c) => reg[c].token \in 0..(MAX_CLIENTS - 1)
    /\ \A c, d \in ConnIds :
         (Registered(c) /\ Registered(d) /\ c # d) => reg[c].token # reg[d].token
    /\ \A k \in 1..Len(batch) : batch[k].token = SERVER_TOKEN => batch[k].sock = 0

\* The table is full again after a removal: a key has been reused.
ReservedListenerTokenWitness ==
    /\ SlabLen = MAX_CLIENTS - 1 /\ vacant = <<>>
    /\ \E c \in ConnIds : Removed(c)

\* C15: in the handling of one client event the read path is entered first
\* iff the event is readable, a writable-only event goes straight to the
\* write path, the write path follows every read that did not remove the
\* connection, and the write path is entered in no other way.
ReadBeforeWrite ==
    [][/\ (pc = "next" /\ pc' # "next" /\ batch # <<>>
             /\ Head(batch).token # SERVER_TOKEN) =>
            /\ pc' = "read" <=> Head(batch).r
            /\ ~Head(batch).r => pc' = "write"
       /\ (pc = "read" /\ pc' # "read") =>
            \/ pc' = "write" /\ cur' = cur /\ clients' = clients
            \/ clients'[cur] = NoClient /\ pc' \in {"poll", "next"}
       /\ (pc' = "write" /\ pc # "write") => pc \in {"next", "read"}]_vars

\* The write path runs on data just read for a connection that was not
\* registered for write-readiness, so its event was readable only.
ReadBeforeWriteWitness ==
    /\ pc = "write" /\ calls = 0
    /\ clients[cur].bufs # <<>> /\ ~reg[clients[cur].sock].w

\* C16: the cached write_interest flag equals the write interest registered
\* in the multiplexer in every state, and the end of a write attempt flips
\* flag and registration exactly when (queue non-empty) differs from the
\* flag, leaving both alone otherwise.
LazyReregistration ==
    /\ [](\A i \in Live : clients[i].writable = reg[clients[i].sock].w)
    /\ [][(pc = "write" /\ pc' # "write" /\ clients'[cur] # NoClient) =>
            LET cl == clients[cur]
                c == cl.sock IN
            IF (cl.bufs # <<>>) # cl.writable
            THEN /\ clients'[cur] = [cl EXCEPT !.writable = ~cl.writable]
                 /\ reg'[c] = [token |-> cur, w |-> cl.bufs # <<>>]
            ELSE clients'[cur] = cl /\ reg' = reg /\ rl' = rl]_vars

\* A write attempt has drained the queue of a connection still registered
\* for write-readiness: the flag is about to be flipped off.
LazyReregistrationWitness ==
    /\ pc = "write"
    /\ clients[cur].bufs = <<>> /\ clients[cur].writable /\ reg[clients[cur].sock].w

\* C17 (as stated): once a read returns fewer bytes than the transfer buffer
\* (and more than zero) the read path stops.
ReadStopsOnShortRead ==
    [][\A c \in ConnIds :
         (pc = "read" /\ rcvd'[c] > rcvd[c] /\ rcvd'[c] - rcvd[c] < DEFAULT_BUF_SIZE)
            => pc' # "read"]_vars

\* C17 (amended): after every read that returns bytes, short or not, the read
\* path adds them to the total and issues another read call; it ends only on
\* a read that reports would-block, returns zero bytes or fails.
ReadStopsOnlyOnWouldBlock ==
    [][/\ \A c \in ConnIds :
            (pc = "read" /\ rcvd'[c] > rcvd[c]) =>
               pc' = "read" /\ cur' = cur /\ tot' = tot + (rcvd'[c] - rcvd[c])
       /\ (pc = "read" /\ pc' # "read") =>
            /\ ReadOutcome(clients[cur].sock) \in {"wouldblock", "eof", "error"}
            /\ rcvd' = rcvd]_vars

\* A short read has happened and the read loop is still running.
ReadStopsOnlyOnWouldBlockWitness ==
    pc = "read" /\ tot > 0 /\ tot < DEFAULT_BUF_SIZE

\* C18 (as stated): when a write accepts fewer bytes than the rest of the
\* front buffer, the write path stops.
WriteStopsOnPartialWrite ==
    [][(pc = "write" /\ cur \in Live
          /\ wr'[clients[cur].sock] # wr[clients[cur].sock]
          /\ clients'[cur].bufs = clients[cur].bufs) => pc' # "write"]_vars

\* C18 (amended): a write that accepts fewer bytes than the rest of the front
\* buffer advances the cursor by the accepted count, one that drains the front
\* buffer pops it and resets the cursor; in both cases the write path issues
\* another write call while the queue is non-empty, and it ends only on an
\* empty queue, would-block or an error.
WriteContinuesAfterPartialWrite ==
    [][/\ (pc = "write" /\ cur \in Live
             /\ Len(wr'[clients[cur].sock]) > Len(wr[clients[cur].sock])) =>
            LET cl == clients[cur]
                n == Len(wr'[cl.sock]) - Len(wr[cl.sock]) IN
            /\ pc' = "write" /\ cur' = cur
            /\ IF n = Len(Head(cl.bufs)) - cl.pos
               THEN clients'[cur] = [cl EXCEPT !.bufs = Tail(@), !.pos = 0]
               ELSE clients'[cur] = [cl EXCEPT !.pos = cl.pos + n]
       /\ (pc = "write" /\ pc' # "write") =>
            \/ clients[cur].bufs = <<>>
            \/ WriteOutcome(clients[cur].sock) \in {"wouldblock", "error"}]_vars

\* A write of this invocation left the cursor inside the front buffer and
\* the write loop is still running.
WriteContinuesAfterPartialWriteWitness ==
    pc = "write" /\ calls > 0 /\ clients[cur].pos > 0

\* C19: the sockets registered with the multiplexer are exactly those of the
\* connections in the table, each under the key of its slot; a connection is
\* admitted as a fresh client registered read-only; removed and rejected
\* connections are not registered.
TableRegistrationConsistency ==
    /\ [](/\ \A c \in ConnIds : Registered(c) <=> \E i \in Live : clients[i].sock = c
          /\ \A i \in Live : reg[clients[i].sock].token = i
          /\ \A c \in ConnIds : fate[c] # "none" => ~Registered(c))
    /\ [][\A i \in Keys :
            (clients[i] = NoClient /\ clients'[i] # NoClient) =>
               /\ pc = "accept" /\ backlog # <<>>
               /\ clients'[i] = [sock |-> Head(backlog), writable |-> FALSE,
                                 bufs |-> <<>>, pos |-> 0]
               /\ reg'[Head(backlog)] = [token |-> i, w |-> FALSE]]_vars

\* Between two wakes: a connection is in the table, one was rejected and one
\* was removed.
TableRegistrationConsistencyWitness ==
    /\ pc = "poll" /\ SlabLen >= 1
    /\ \E c \in ConnIds : fate[c] = "rejected"
    /\ \E c \in ConnIds : Removed(c)

\* ---- Client::write on its own, over every sequence of write results ----
\* The socket calls one invocation may make; more than the bytes pending, so
\* that a queue can be drained one byte at a time with calls to spare.
MaxCalls == MaxQueue * DEFAULT_BUF_SIZE + 1

\* The buffers Client::read can queue: 1..DEFAULT_BUF_SIZE bytes each.
QueueBufs == UNION {[1..n -> Range(Stream(1))] : n \in 1..DEFAULT_BUF_SIZE}

Queues == UNION {[1..n -> QueueBufs] : n \in 0..MaxQueue}

\* One connection in the table with some queue, a cursor inside the front
\* buffer and some cached flag; run is about to call Client::write on it.
InitW ==
    /\ \E q \in Queues, f \in BOOLEAN :
         \E p \in 0..(IF q = <<>> THEN 0 ELSE Len(Head(q)) - 1) :
           /\ clients = [i \in Keys |->
                           IF i = 0
                           THEN [sock |-> 1, writable |-> f, bufs |-> q, pos |-> p]
                           ELSE NoClient]
           /\ reg = [c \in ConnIds |->
                       IF c = 1 THEN [token |-> 0, w |-> f] ELSE NoReg]
    /\ vacant = <<>>
    /\ rl = {}
    /\ lrdy = FALSE
    /\ batch = <<>>
    /\ pc = "write"
    /\ cur = 0
    /\ tot = 0
    /\ backlog = <<>>
    /\ nextConn = 2
    /\ sent = [c \in ConnIds |-> 0]
    /\ rcvd = [c \in ConnIds |-> 0]
    /\ fin = [c \in ConnIds |-> FALSE]
    /\ rst = [c \in ConnIds |-> FALSE]
    /\ wr = [c \in ConnIds |-> <<>>]
    /\ consumed = [c \in ConnIds |-> 0]
    /\ fate = [c \in ConnIds |-> "none"]
    /\ spurious = 0
    /\ acc = "none"
    /\ calls = 0
    /\ load = [conns |-> MaxDataConns, bytes |-> MaxSend]

\* write returns Ok(len) for any len up to the size of the slice passed.
AnyWriteOk ==
    /\ pc = "write"
    /\ clients[cur].bufs # <<>>
    /\ calls < MaxCalls
    /\ \E len \in 0..Len(WriteSlice(clients[cur])) : WriteOk(len)

AnyWriteWouldBlock ==
    /\ pc = "write"
    /\ clients[cur].bufs # <<>>
    /\ WriteReturn

AnyWriteError ==
    /\ pc = "write"
    /\ clients[cur].bufs # <<>>
    /\ WriteFail

QueueEmpty ==
    /\ pc = "write"
    /\ clients[cur].bufs = <<>>
    /\ WriteReturn

NextW ==
    \/ AnyWriteOk
    \/ AnyWriteWouldBlock
    \/ AnyWriteError
    \/ QueueEmpty

WriteSpec == InitW /\ [][NextW]_vars

\* The bytes a client still has to write.
Pending(cl) == Len(Flatten(cl.bufs)) - cl.pos

\* C20 (as stated): every write call that returns Ok(n), 0 <= n <= remaining,
\* advances the cursor or pops the front buffer, so the bytes pending shrink
\* with every call and the drain ends after finitely many calls.
WriteDrainAnyResult ==
    [][(pc = "write" /\ calls' > calls) =>
          Pending(clients'[cur]) < Pending(clients[cur])]_vars

\* C20 (amended): every write call that accepts n >= 1 bytes advances the
\* cursor or pops the front buffer and takes n off the bytes pending, which
\* never go below zero, and the loop is left only for the event loop (queue
\* empty, would-block) with the connection kept, or by an error with the
\* connection removed.
WriteDrainTerminates ==
    [][/\ (pc = "write" /\ tot' > tot) =>
            LET cl == clients[cur]
                ncl == clients'[cur] IN
            /\ Pending(ncl) = Pending(cl) - (tot' - tot)
            /\ Pending(ncl) >= 0
            /\ \/ ncl.bufs = cl.bufs /\ ncl.pos > cl.pos
               \/ ncl.bufs = Tail(cl.bufs) /\ ncl.pos = 0
            /\ pc' = "write" /\ cur' = cur
       /\ (pc = "write" /\ pc' # "write") =>
            /\ pc' \in {"poll", "next"}
            /\ \/ clients'[cur] = NoClient /\ clients[cur].bufs # <<>>
               \/ clients'[cur] # NoClient /\ clients'[cur].bufs = clients[cur].bufs]_vars

\* A queue of two buffers has been drained by more than two write calls, each
\* accepting at least one byte, and the loop is about to end on the empty queue.
WriteDrainTerminatesWitness ==
    /\ pc = "write" /\ clients[cur].bufs = <<>>
    /\ calls > MaxQueue /\ tot = calls /\ Len(wr[clients[cur].sock]) = tot

====
